---- MODULE Spec2Model ----
(***************************************************************************)
(* A model of the meeting-session orchestration of JamesBusinessBot:       *)
(* MeetingBot (src/src/bot/meeting_bot.py), the two platform adapters it   *)
(* delegates to (TeamsService, GoogleMeetService) and the summarisation    *)
(* step of OpenAIService that produces the fragments it aggregates.        *)
(*                                                                         *)
(* Python values are written as follows.  None is the string "None"; the   *)
(* booleans are "True" and "False" (MeetingBot.current_meeting holds the   *)
(* bool an adapter's join_meeting returned, or None).  A str or bytes      *)
(* value is the sequence of its characters; a list is a sequence; a value  *)
(* that is a str or None is <<s>> or <<>>.  The calls of the vendor SDKs   *)
(* (Bot Framework, Playwright, Google Calendar, OpenAI) return or raise as *)
(* the service decides: each is a choice among the outcomes its caller     *)
(* handles.  The configuration always holds a positive                     *)
(* transcription.buffer_size.                                              *)
(***************************************************************************)
EXTENDS Integers, Sequences, FiniteSets, TLC

\* ------------------------------------------------------------------ bounds

\* number of process_audio calls a behaviour makes
MaxChunks == 3
\* largest config['transcription']['buffer_size'] a bot is constructed with
MaxBufferSize == 2

\* ------------------------------------------------------------------ inputs

MeetingIds == {"m1", "m2"}
\* platform strings of join requests; "Teams" exercises platform.lower()
Platforms == {"teams", "Teams", "google", "zoom"}

\* The contents of the chat completions the summariser is given, each a
\* sequence of lines after line.strip(): section headers, lines of text and
\* blank lines, with text before the first header, repeated items and
\* sections left out.
Responses ==
    { <<"Summary:", "x", "Action Items:", "x", "y", "Key Points:", "x">>,
      <<"Summary:", "y", "x", "", "Action Items:", "x", "Next Steps:", "y">>,
      <<"x", "Key Points:", "y", "y">> }

\* ------------------------------------------------------------------ Python helpers

\* str.lower() on the platform and format strings
Lower(s) ==
    CASE s = "Teams" -> "teams"
      [] s = "PowerPoint" -> "powerpoint"
      [] OTHER -> s

\* Truthy, were the test `is not None`
Truthy_is_not_none(v) == v # "None"

\* Truthy, were a bool not truthy
Truthy_no_bool(v) == v \notin {"None", "False", "True"}

\* truthiness of the values current_meeting takes
Truthy(v) == v = "True"

\* sep.join(parts) for parts a sequence of strings (sequences of characters)
RECURSIVE Join(_, _)
Join(sep, parts) ==
    IF parts = <<>> THEN <<>>
    ELSE IF Len(parts) = 1 THEN parts[1]
    ELSE parts[1] \o sep \o Join(sep, Tail(parts))

\* ------------------------------------------------------------------ OpenAIService

\* the section a stripped line switches to (line.lower().startswith(...)),
\* or "none" for a line of text
SectionOf(line) ==
    CASE line = "Summary:" -> "summary"
      [] line = "Action Items:" -> "action_items"
      [] line = "Key Points:" -> "key_points"
      [] line = "Next Steps:" -> "next_steps"
      [] OTHER -> "none"

\* the loop of generate_summary over lines[i..], in section current_section
\* with the four lists collected so far
RECURSIVE ParseLines(_, _, _, _)
ParseLines(lines, i, current_section, acc) ==
    IF i > Len(lines) THEN acc
    ELSE LET line == lines[i]
         IN  IF line = "" THEN ParseLines(lines, i + 1, current_section, acc)
             ELSE IF SectionOf(line) # "none"
                  THEN ParseLines(lines, i + 1, SectionOf(line), acc)
             ELSE IF current_section = "summary"
                  THEN ParseLines(lines, i + 1, current_section,
                           [acc EXCEPT !.summary = Append(@, <<line>>)])
             ELSE IF current_section = "action_items"
                  THEN ParseLines(lines, i + 1, current_section,
                           [acc EXCEPT !.action_items = Append(@, [description |-> line])])
             ELSE IF current_section = "key_points"
                  THEN ParseLines(lines, i + 1, current_section,
                           [acc EXCEPT !.key_points = Append(@, line)])
             ELSE IF current_section = "next_steps"
                  THEN ParseLines(lines, i + 1, current_section,
                           [acc EXCEPT !.next_steps = Append(@, line)])
             ELSE ParseLines(lines, i + 1, current_section, acc)

\* OpenAIService.generate_summary on a completion whose content is `lines`
generate_summary(lines) ==
    LET acc == ParseLines(lines, 1, "None",
                   [summary |-> <<>>, action_items |-> <<>>,
                    key_points |-> <<>>, next_steps |-> <<>>])
    IN  [summary |-> Join(<<"\n">>, acc.summary),
         action_items |-> acc.action_items,
         key_points |-> acc.key_points,
         next_steps |-> acc.next_steps]

\* the fragments generate_summary returns on the completions above
Fragments == {generate_summary(r) : r \in Responses}

\* ------------------------------------------------------------------ state

VARIABLES
    \* MeetingBot
    enabled,               \* platforms whose config['meetings'][..]['enabled'] is set
    buffer_size,           \* config['transcription']['buffer_size']
    current_meeting,       \* "None", or the bool an adapter's join returned
    transcription_buffer,  \* list of bytes
    summary,               \* <<>> for None, <<s>> for the str s
    action_items,          \* list of {'description': str}
    key_points,            \* list of str
    next_steps,            \* list of str
    \* the adapters
    teams_current_meeting,   \* TeamsService.current_meeting: "None" or the meeting joined
    google_current_meeting,  \* GoogleMeetService.current_meeting, likewise
    google_page,             \* GoogleMeetService.page: "None" or "Page"
    \* the process_audio calls that run as tasks: chunk number -> task
    tasks,
    \* history
    chunks_fed,            \* number of process_audio calls made so far
    merged,                \* the successful flushes, in the order they merged
    last,                  \* the operation that ran last, and what it did
    handed,                \* the notes handed out last, to a caller or to JIRA
    app                    \* main.py: the configuration file and environment it
                           \* was started with and the configuration it loaded

bot_vars == <<enabled, buffer_size, current_meeting, transcription_buffer,
              summary, action_items, key_points, next_steps>>
notes_vars == <<summary, action_items, key_points, next_steps>>
adapter_vars == <<teams_current_meeting, google_current_meeting, google_page>>
vars == <<bot_vars, adapter_vars, tasks, chunks_fed, merged, last, handed, app>>

NoFragment == [summary |-> <<>>, action_items |-> <<>>,
               key_points |-> <<>>, next_steps |-> <<>>]

\* `app` before main.py has run
NotStarted ==
    [started |-> FALSE, file |-> [exists |-> FALSE, sections |-> {}], env |-> {},
     config |-> [sections |-> {}, openai_api_key |-> "None",
                 jira_api_token |-> "None"]]

\* `handed` before any notes were handed out.  A value handed out is the
\* operation that built it, the number of process_audio calls made by then,
\* the entries it holds by value (meeting_id, platform, summary, and
\* action_items when a new list was built for it) and `live`, the names of
\* its entries that are the bot's own list objects.
NothingHanded ==
    [op |-> "none", at |-> 0, meeting_id |-> "None", platform |-> "None",
     summary |-> <<>>, action_items |-> <<>>, live |-> {}]

\* whether `op` handed out a value before with no process_audio call since
Repeated(op) == handed.op = op /\ handed.at = chunks_fed

\* what `last` records of an operation that called neither adapter nor flush
Quiet(op, result) ==
    [op |-> op, result |-> result, was_meeting |-> current_meeting,
     adapter_join |-> "none", adapter_result |-> "none",
     adapter_leave |-> "none", format |-> "none", again |-> Repeated(op),
     jira_result |-> "none", bot_call |-> "none", arguments |-> {},
     status |-> "none", body |-> <<>>, items |-> <<>>, failed |-> {},
     tickets |-> <<>>,
     transcribe_calls |-> 0, summary_calls |-> 0, flush |-> "none",
     flush_result |-> <<>>, payload |-> <<>>, fragment |-> NoFragment]

\* MeetingBot.__init__, for each configuration
Init ==
    /\ enabled \in SUBSET {"teams", "google"}
    /\ buffer_size \in 1..MaxBufferSize
    /\ current_meeting = "None"
    /\ transcription_buffer = <<>>
    /\ summary = <<>>
    /\ action_items = <<>>
    /\ key_points = <<>>
    /\ next_steps = <<>>
    /\ teams_current_meeting = "None"
    /\ google_current_meeting = "None"
    /\ google_page = "None"
    /\ tasks = <<>>
    /\ chunks_fed = 0
    /\ merged = <<>>
    /\ handed = NothingHanded
    /\ app = NotStarted
    /\ last = Quiet("init", "None")

\* ------------------------------------------------------------------ adapters

\* What the calls TeamsService.join_meeting makes can do: the conversation is
\* not created (ConnectorClient or create_conversation raises), it is created
\* and _start_audio_capture raises, or both succeed.
TeamsJoinOutcomes == {"create_raises", "capture_raises", "ok"}

\* TeamsService.join_meeting(meeting_id): the bool returned and the
\* current_meeting of the service afterwards
TeamsService_join_meeting(meeting_id, o) ==
    [result |-> IF o = "ok" THEN "True" ELSE "False",
     current_meeting |-> IF o = "create_raises" THEN teams_current_meeting
                         ELSE meeting_id]

\* What the calls GoogleMeetService.join_meeting makes can do: the calendar has
\* no such meeting, a call raises before the page is opened, a call raises
\* after it and _cleanup closes the page, the same with page.close() raising
\* in _cleanup, the join button is not found or not clicked, or the meeting
\* is joined.
GoogleJoinOutcomes ==
    {"not_found", "raises_early", "raises", "raises_close_raises", "no_button", "ok"}

\* GoogleMeetService.join_meeting(meeting_code): the bool returned, and the
\* current_meeting and page of the service afterwards
GoogleMeetService_join_meeting(meeting_code, o) ==
    [result |-> IF o = "ok" THEN "True" ELSE "False",
     current_meeting |-> IF o = "ok" THEN meeting_code
                         ELSE google_current_meeting,
     page |-> CASE o = "not_found" -> google_page
                [] o = "raises_early" -> "None"
                [] o = "raises" -> "None"
                [] o = "raises_close_raises" -> "Page"
                [] OTHER -> "Page"]

\* What the calls an adapter's leave_meeting makes can do
LeaveOutcomes == {"raises", "ok"}

\* TeamsService.leave_meeting(): the bool returned and the current_meeting of
\* the service afterwards
TeamsService_leave_meeting(o) ==
    IF teams_current_meeting # "None" /\ o = "ok"
    THEN [result |-> "True", current_meeting |-> "None"]
    ELSE [result |-> "False", current_meeting |-> teams_current_meeting]

\* GoogleMeetService.leave_meeting(): the bool returned, and the
\* current_meeting and page of the service afterwards (_cleanup closes the
\* page on both paths that reach the browser)
GoogleMeetService_leave_meeting(o) ==
    IF google_page # "None" /\ google_current_meeting # "None"
    THEN IF o = "ok"
         THEN [result |-> "True", current_meeting |-> "None", page |-> "None"]
         ELSE [result |-> "False", current_meeting |-> google_current_meeting,
               page |-> "None"]
    ELSE [result |-> "False", current_meeting |-> google_current_meeting,
          page |-> google_page]

\* isinstance(v, cls) for the values current_meeting takes: None and bools
\* are instances of neither service class
IsInstance(v, cls) == v = cls

\* ------------------------------------------------------------------ MeetingBot

\* join_meeting, were the bool the adapter returned not assigned to
\* current_meeting
join_meeting_unrecorded(meeting_id, platform) ==
    /\ IF Lower(platform) = "teams" /\ "teams" \in enabled
       THEN \E o \in TeamsJoinOutcomes :
              LET r == TeamsService_join_meeting(meeting_id, o)
              IN  /\ teams_current_meeting' = r.current_meeting
                  /\ UNCHANGED <<google_current_meeting, google_page>>
                  /\ last' = [Quiet("join_meeting", "True") EXCEPT
                                  !.adapter_join = "teams",
                                  !.adapter_result = r.result]
       ELSE IF Lower(platform) = "google" /\ "google" \in enabled
       THEN \E o \in GoogleJoinOutcomes :
              LET r == GoogleMeetService_join_meeting(meeting_id, o)
              IN  /\ google_current_meeting' = r.current_meeting
                  /\ google_page' = r.page
                  /\ UNCHANGED teams_current_meeting
                  /\ last' = [Quiet("join_meeting", "True") EXCEPT
                                  !.adapter_join = "google",
                                  !.adapter_result = r.result]
       ELSE /\ UNCHANGED adapter_vars
            /\ last' = Quiet("join_meeting", "False")
    /\ UNCHANGED <<enabled, buffer_size, current_meeting, transcription_buffer,
                   notes_vars, tasks, chunks_fed, merged, handed, app>>

\* MeetingBot.join_meeting(meeting_id, platform)
join_meeting(meeting_id, platform) ==
    /\ IF Lower(platform) = "teams" /\ "teams" \in enabled
       THEN \E o \in TeamsJoinOutcomes :
              LET r == TeamsService_join_meeting(meeting_id, o)
              IN  /\ current_meeting' = r.result
                  /\ teams_current_meeting' = r.current_meeting
                  /\ UNCHANGED <<google_current_meeting, google_page>>
                  /\ last' = [Quiet("join_meeting", "True") EXCEPT
                                  !.adapter_join = "teams",
                                  !.adapter_result = r.result]
       ELSE IF Lower(platform) = "google" /\ "google" \in enabled
       THEN \E o \in GoogleJoinOutcomes :
              LET r == GoogleMeetService_join_meeting(meeting_id, o)
              IN  /\ current_meeting' = r.result
                  /\ google_current_meeting' = r.current_meeting
                  /\ google_page' = r.page
                  /\ UNCHANGED teams_current_meeting
                  /\ last' = [Quiet("join_meeting", "True") EXCEPT
                                  !.adapter_join = "google",
                                  !.adapter_result = r.result]
       ELSE /\ UNCHANGED <<current_meeting, adapter_vars>>
            /\ last' = Quiet("join_meeting", "False")
    /\ UNCHANGED <<enabled, buffer_size, transcription_buffer, notes_vars,
                   tasks, chunks_fed, merged, handed, app>>

\* MeetingBot.leave_meeting()
leave_meeting ==
    /\ IF Truthy(current_meeting)
       THEN /\ \E o \in LeaveOutcomes :
                 IF IsInstance(current_meeting, "TeamsService")
                 THEN /\ teams_current_meeting' = TeamsService_leave_meeting(o).current_meeting
                      /\ UNCHANGED <<google_current_meeting, google_page>>
                      /\ last' = [Quiet("leave_meeting", "True") EXCEPT
                                      !.adapter_leave = "teams"]
                 ELSE IF IsInstance(current_meeting, "GoogleMeetService")
                 THEN /\ google_current_meeting' = GoogleMeetService_leave_meeting(o).current_meeting
                      /\ google_page' = GoogleMeetService_leave_meeting(o).page
                      /\ UNCHANGED teams_current_meeting
                      /\ last' = [Quiet("leave_meeting", "True") EXCEPT
                                      !.adapter_leave = "google"]
                 ELSE /\ UNCHANGED adapter_vars
                      /\ last' = Quiet("leave_meeting", "True")
            /\ current_meeting' = "None"
       ELSE /\ UNCHANGED <<current_meeting, adapter_vars>>
            /\ last' = Quiet("leave_meeting", "False")
    /\ UNCHANGED <<enabled, buffer_size, transcription_buffer, notes_vars,
                   tasks, chunks_fed, merged, handed, app>>

\* append_audio, were the bytes kept only while a meeting is recorded
append_audio_in_meeting(audio_data) ==
    IF current_meeting = "True" THEN Append(transcription_buffer, audio_data)
    ELSE transcription_buffer

\* self.transcription_buffer.append(audio_data): the buffer afterwards
append_audio(audio_data) == Append(transcription_buffer, audio_data)

\* ShouldFlush, were the buffer flushed at buffer_size chunks exactly
ShouldFlush_exact(buffer) == Len(buffer) = buffer_size

\* ShouldFlush, were the comparison strict
ShouldFlush_strict(buffer) == Len(buffer) > buffer_size

\* len(self.transcription_buffer) >= self.config['transcription']['buffer_size']
ShouldFlush(buffer) == Len(buffer) >= buffer_size

\* How the two calls of a flush can end: transcribe_audio raises,
\* generate_summary raises, or both return and the summary is `fragment`.
FlushOutcomes ==
    {[kind |-> "transcribe_raises", fragment |-> NoFragment],
     [kind |-> "summary_raises", fragment |-> NoFragment]}
    \cup {[kind |-> "ok", fragment |-> f] : f \in Fragments}

\* the items of `items` not in `seen`, in order
RECURSIVE Unseen(_, _)
Unseen(seen, items) ==
    IF items = <<>> THEN <<>>
    ELSE IF \E i \in 1..Len(seen) : seen[i] = items[1]
         THEN Unseen(seen, Tail(items))
         ELSE <<items[1]>> \o Unseen(Append(seen, items[1]), Tail(items))

\* Merge, were the lists merged as sets (an item already present is skipped)
Merge_union(summary_data) ==
    [summary |-> <<summary_data.summary>>,
     action_items |-> action_items \o Unseen(action_items, summary_data.action_items),
     key_points |-> key_points \o Unseen(key_points, summary_data.key_points),
     next_steps |-> next_steps \o Unseen(next_steps, summary_data.next_steps)]

\* the "Update bot state" lines of _process_transcription_buffer
Merge(summary_data) ==
    [summary |-> <<summary_data.summary>>,
     action_items |-> action_items \o summary_data.action_items,
     key_points |-> key_points \o summary_data.key_points,
     next_steps |-> next_steps \o summary_data.next_steps]

\* _process_transcription_buffer, were the buffer cleared on every attempt
_process_transcription_buffer_clears(buffer, o) ==
    [transcription_buffer |-> <<>>,
     notes |-> IF o.kind = "ok" THEN Merge(o.fragment)
               ELSE [summary |-> summary, action_items |-> action_items,
                     key_points |-> key_points, next_steps |-> next_steps],
     transcribe_calls |-> 1,
     summary_calls |-> IF o.kind = "transcribe_raises" THEN 0 ELSE 1,
     result |-> <<>>]

\* _process_transcription_buffer, were the buffer not cleared after the merge
_process_transcription_buffer_keeps(buffer, o) ==
    [transcription_buffer |-> buffer,
     notes |-> IF o.kind = "ok" THEN Merge(o.fragment)
               ELSE [summary |-> summary, action_items |-> action_items,
                     key_points |-> key_points, next_steps |-> next_steps],
     transcribe_calls |-> 1,
     summary_calls |-> IF o.kind = "transcribe_raises" THEN 0 ELSE 1,
     result |-> <<>>]

\* _process_transcription_buffer, were a call that raises made once more
_process_transcription_buffer_retries(buffer, o) ==
    [transcription_buffer |-> IF o.kind = "ok" THEN <<>> ELSE buffer,
     notes |-> IF o.kind = "ok" THEN Merge(o.fragment)
               ELSE [summary |-> summary, action_items |-> action_items,
                     key_points |-> key_points, next_steps |-> next_steps],
     transcribe_calls |-> IF o.kind = "transcribe_raises" THEN 2 ELSE 1,
     summary_calls |-> CASE o.kind = "transcribe_raises" -> 0
                         [] o.kind = "summary_raises" -> 2
                         [] OTHER -> 1,
     result |-> <<>>]

\* MeetingBot._process_transcription_buffer() run to its end on `buffer`
\* with outcome o: the buffer and the notes afterwards, and the calls it made
\* of transcribe_audio and generate_summary.  An exception of either call
\* leaves the try block before any assignment and is logged by the except
\* clause; nothing is called again.  The function has no return statement:
\* on both paths its result is None (<<>>).
_process_transcription_buffer(buffer, o) ==
    IF o.kind = "ok"
    THEN [transcription_buffer |-> <<>>, notes |-> Merge(o.fragment),
          transcribe_calls |-> 1, summary_calls |-> 1, result |-> <<>>]
    ELSE [transcription_buffer |-> buffer,
          notes |-> [summary |-> summary, action_items |-> action_items,
                     key_points |-> key_points, next_steps |-> next_steps],
          transcribe_calls |-> 1,
          summary_calls |-> IF o.kind = "transcribe_raises" THEN 0 ELSE 1,
          result |-> <<>>]

\* what `last` records of a process_audio call that flushed `buffer`
Flushed(buffer, o, r) ==
    [Quiet("process_audio", "None") EXCEPT
        !.transcribe_calls = r.transcribe_calls,
        !.summary_calls = r.summary_calls,
        !.flush = o.kind,
        !.flush_result = r.result,
        !.payload = Join(<<>>, buffer),
        !.fragment = o.fragment]

\* MeetingBot.process_audio(audio_data) run to its end with no other task
\* interleaved; audio_data is one byte that numbers the call
process_audio ==
    /\ chunks_fed < MaxChunks
    /\ chunks_fed' = chunks_fed + 1
    /\ LET audio_data == <<chunks_fed + 1>>
           buffer == append_audio(audio_data)
       IN  IF ShouldFlush(buffer)
           THEN \E o \in FlushOutcomes :
                  LET r == _process_transcription_buffer(buffer, o)
                  IN  /\ transcription_buffer' = r.transcription_buffer
                      /\ summary' = r.notes.summary
                      /\ action_items' = r.notes.action_items
                      /\ key_points' = r.notes.key_points
                      /\ next_steps' = r.notes.next_steps
                      /\ merged' = IF o.kind = "ok"
                                   THEN Append(merged, [call |-> chunks_fed + 1,
                                                        payload |-> Join(<<>>, buffer),
                                                        fragment |-> o.fragment])
                                   ELSE merged
                      /\ last' = Flushed(buffer, o, r)
           ELSE /\ transcription_buffer' = buffer
                /\ UNCHANGED <<notes_vars, merged>>
                /\ last' = Quiet("process_audio", "None")
    /\ UNCHANGED <<enabled, buffer_size, current_meeting, adapter_vars, tasks,
                   handed, app>>

\* ------------------------------------------------------------------ specification

\* the operations of one bot, each run to its end before the next starts
Next ==
    \/ \E meeting_id \in MeetingIds, platform \in Platforms :
           join_meeting(meeting_id, platform)
    \/ leave_meeting
    \/ process_audio

Spec == Init /\ [][Next]_vars

\* ------------------------------------------------------------------ tasks

\* The process_audio calls as tasks of one event loop.  A task runs until it
\* awaits a call of the OpenAI service (transcribe_audio, generate_summary)
\* and other tasks run until that call returns; tasks[n] is the task of the
\* n-th call, at the call it awaits ("done" and "failed" once it has ended),
\* with the bytes it handed to transcribe_audio.
InFlight == {"transcribe_audio", "generate_summary"}

\* process_audio(audio_data) up to its first await: the append, the
\* threshold test and, in _process_transcription_buffer, the join of the
\* buffer that is the argument of transcribe_audio
pa_call ==
    /\ chunks_fed < MaxChunks
    /\ chunks_fed' = chunks_fed + 1
    /\ LET audio_data == <<chunks_fed + 1>>
           buffer == append_audio(audio_data)
       IN  /\ transcription_buffer' = buffer
           /\ tasks' = Append(tasks,
                         IF ShouldFlush(buffer)
                         THEN [pc |-> "transcribe_audio", payload |-> Join(<<>>, buffer)]
                         ELSE [pc |-> "done", payload |-> <<>>])
    /\ last' = Quiet("pa_call", "None")
    /\ UNCHANGED <<enabled, buffer_size, current_meeting, notes_vars,
                   adapter_vars, merged, handed, app>>

\* transcribe_audio returns to task t, or raises into its except clause
pa_transcribed(t) ==
    /\ tasks[t].pc = "transcribe_audio"
    /\ \E raises \in BOOLEAN :
          tasks' = [tasks EXCEPT ![t].pc = IF raises THEN "failed"
                                           ELSE "generate_summary"]
    /\ last' = Quiet("pa_transcribed", "None")
    /\ UNCHANGED <<bot_vars, adapter_vars, chunks_fed, merged, handed, app>>

\* generate_summary returns to task t, which updates the bot state and
\* clears the buffer, or raises into its except clause
pa_summarized(t) ==
    /\ tasks[t].pc = "generate_summary"
    /\ \E o \in FlushOutcomes :
          /\ o.kind # "transcribe_raises"
          /\ IF o.kind = "ok"
             THEN /\ summary' = Merge(o.fragment).summary
                  /\ action_items' = Merge(o.fragment).action_items
                  /\ key_points' = Merge(o.fragment).key_points
                  /\ next_steps' = Merge(o.fragment).next_steps
                  /\ transcription_buffer' = <<>>
                  /\ merged' = Append(merged, [call |-> t,
                                               payload |-> tasks[t].payload,
                                               fragment |-> o.fragment])
                  /\ tasks' = [tasks EXCEPT ![t].pc = "done"]
             ELSE /\ UNCHANGED <<transcription_buffer, notes_vars, merged>>
                  /\ tasks' = [tasks EXCEPT ![t].pc = "failed"]
    /\ last' = Quiet("pa_summarized", "None")
    /\ UNCHANGED <<enabled, buffer_size, current_meeting, adapter_vars,
                   chunks_fed, handed, app>>

\* the operations of one bot with process_audio calls running as tasks;
\* join_meeting and leave_meeting run between the steps of the tasks (the
\* joins of one meeting, by either adapter)
NextTasks ==
    \/ \E platform \in {"teams", "google"} : join_meeting("m1", platform)
    \/ leave_meeting
    \/ pa_call
    \/ \E t \in 1..Len(tasks) : pa_transcribed(t)
    \/ \E t \in 1..Len(tasks) : pa_summarized(t)

SpecTasks == Init /\ [][NextTasks]_vars

\* ------------------------------------------------------------------ outputs

\* format strings of generate_documents requests: "PowerPoint" exercises
\* format.lower(), "Test content" is the argument of test_generate_documents
Formats == {"word", "PowerPoint", "Test content"}

\* the JIRA tickets update_jira is asked to update
JiraTickets == {"TEST-123"}

\* the dict get_meeting_status returns when current_meeting is falsy:
\* 'action_items' is a new list of the descriptions, 'key_points' and
\* 'next_steps' are self.key_points and self.next_steps themselves
status ==
    [op |-> "get_meeting_status", at |-> chunks_fed,
     meeting_id |-> "None", platform |-> "None", summary |-> summary,
     action_items |-> [i \in 1..Len(action_items) |-> action_items[i].description],
     live |-> {"key_points", "next_steps"}]

\* MeetingBot.get_meeting_status().  With a truthy current_meeting (the bool
\* True) the 'meeting_id' entry reads self.current_meeting.meeting_id, an
\* attribute a bool does not have: AttributeError is raised before the
\* dict is built.
get_meeting_status ==
    /\ IF Truthy(current_meeting)
       THEN /\ last' = Quiet("get_meeting_status", "AttributeError")
            /\ UNCHANGED handed
       ELSE /\ last' = Quiet("get_meeting_status", "dict")
            /\ handed' = status
    /\ UNCHANGED <<bot_vars, adapter_vars, tasks, chunks_fed, merged, app>>

\* update_data, were the summary included only while a meeting is recorded
update_data_in_meeting ==
    [op |-> "update_jira", at |-> chunks_fed,
     meeting_id |-> "None", platform |-> "None",
     summary |-> IF Truthy(current_meeting) THEN summary ELSE <<>>,
     action_items |-> <<>>,
     live |-> {"action_items", "key_points", "next_steps"}]

\* the update_data dict of update_jira: 'summary' and, as the lists
\* themselves, self.action_items, self.key_points and self.next_steps
update_data ==
    [op |-> "update_jira", at |-> chunks_fed,
     meeting_id |-> "None", platform |-> "None", summary |-> summary,
     action_items |-> <<>>,
     live |-> {"action_items", "key_points", "next_steps"}]

\* What the calls of the JIRA client in update_ticket can do
JiraOutcomes == {"raises", "ok"}

\* JiraService.update_ticket(ticket_id, summary): True, or the exception it
\* logs and raises again
JiraService_update_ticket(ticket_id, fields, o) ==
    IF o = "ok" THEN "True" ELSE "raises"

\* update_jira, were the exception of update_ticket raised to the caller
update_jira_raises(meeting_id, jira_ticket_id) ==
    /\ \E o \in JiraOutcomes :
          LET success == JiraService_update_ticket(jira_ticket_id, update_data, o)
          IN  last' = [Quiet("update_jira", success) EXCEPT !.jira_result = success]
    /\ handed' = update_data
    /\ UNCHANGED <<bot_vars, adapter_vars, tasks, chunks_fed, merged, app>>

\* MeetingBot.update_jira(meeting_id, jira_ticket_id): update_data is passed
\* to JiraService.update_ticket, whose True is returned; an exception of it
\* is logged and False returned
update_jira(meeting_id, jira_ticket_id) ==
    /\ \E o \in JiraOutcomes :
          LET success == JiraService_update_ticket(jira_ticket_id, update_data, o)
          IN  last' = [Quiet("update_jira",
                             IF success = "True" THEN "True" ELSE "False")
                       EXCEPT !.jira_result = success]
    /\ handed' = update_data
    /\ UNCHANGED <<bot_vars, adapter_vars, tasks, chunks_fed, merged, app>>

\* MeetingBot.generate_documents(meeting_id, format): the exception it logs
\* and raises again.  Building doc_data, "\n".join(self.transcription_buffer)
\* raises TypeError when the buffer holds chunks (they are bytes); then the
\* branches of "word" and "powerpoint" read the name `this`, which is not
\* defined (NameError), and any other format raises ValueError.  No path is
\* returned and the document service is not called.
generate_documents(meeting_id, format) ==
    /\ LET raised == IF transcription_buffer # <<>> THEN "TypeError"
                     ELSE IF Lower(format) \in {"word", "powerpoint"} THEN "NameError"
                     ELSE "ValueError"
       IN  last' = [Quiet("generate_documents", raised) EXCEPT !.format = format]
    /\ UNCHANGED <<bot_vars, adapter_vars, tasks, chunks_fed, merged, handed, app>>

\* the notes a holder of the value handed out last reads in it now: the
\* entries held by value as they were, the live lists as they are
HandedNotes ==
    [summary |-> handed.summary,
     action_items |-> IF "action_items" \in handed.live THEN action_items
                      ELSE handed.action_items,
     key_points |-> IF "key_points" \in handed.live THEN key_points ELSE <<>>,
     next_steps |-> IF "next_steps" \in handed.live THEN next_steps ELSE <<>>]

\* the operations of one bot with its output operations, each run to its
\* end before the next starts (the joins of one meeting, by the Teams adapter)
NextOutputs ==
    \/ join_meeting("m1", "teams")
    \/ leave_meeting
    \/ process_audio
    \/ get_meeting_status
    \/ \E format \in Formats : generate_documents("m1", format)
    \/ \E jira_ticket_id \in JiraTickets : update_jira("m1", jira_ticket_id)

SpecOutputs == Init /\ [][NextOutputs]_vars

\* ------------------------------------------------------------------ application

\* the sections and environment variables the spec requires of a
\* configuration (those load_config of utils/config_loader.py checks)
RequiredSections == {"bot", "meetings", "openai", "jira", "documents", "logging"}
RequiredEnvVars == {"OPENAI_API_KEY", "JIRA_API_TOKEN", "JIRA_EMAIL", "JIRA_URL"}

\* the configuration file at config_path: absent, or a mapping with all the
\* required sections or all but one
ConfigFiles ==
    {[exists |-> FALSE, sections |-> {}]}
    \cup {[exists |-> TRUE, sections |-> RequiredSections]}
    \cup {[exists |-> TRUE, sections |-> RequiredSections \ {section}] :
              section \in RequiredSections}

\* os.getenv(name) for the variables set in `env`
Getenv(env, name) == IF name \in env THEN "set" ELSE "None"

\* load_config of config/config_loader.py, the one main.py imports: on
\* FileNotFoundError the configuration is the empty dict; setdefault adds
\* the sections it writes to, and the credentials are what os.getenv
\* returns, None for a variable that is not set.  Nothing is raised.
load_config(file, env) ==
    [raised |-> "none",
     config |-> [sections |-> (IF file.exists THEN file.sections ELSE {})
                                \cup {"openai", "jira", "google_meet", "logging"},
                 openai_api_key |-> Getenv(env, "OPENAI_API_KEY"),
                 jira_api_token |-> Getenv(env, "JIRA_API_TOKEN")]]

\* main.py at import: config = load_config()
main_load_config(file, env) ==
    /\ ~app.started
    /\ LET r == load_config(file, env)
       IN  /\ app' = [started |-> r.raised = "none", file |-> file, env |-> env,
                      config |-> r.config]
           /\ last' = Quiet("load_config", r.raised)
    /\ UNCHANGED <<bot_vars, adapter_vars, tasks, chunks_fed, merged, handed>>

\* The object the handlers of main.py call as meeting_bot: the MeetingBot
\* of main.py:28, or a stand-in whose join_meeting and leave_meeting
\* return True, return False or raise (the bot tests/test_api.py patches in).
ApiBots == {"MeetingBot", "True", "False", "raises"}

\* the requests of POST /meetings/join (title and description left out)
MeetingRequests == {[meeting_id |-> "m1", platform |-> p] : p \in {"teams", "google"}}

\* the parameters of MeetingBot.join_meeting and MeetingBot.leave_meeting
\* after self
JoinParameters == {"meeting_id", "platform"}
LeaveParameters == {}

\* `await meeting_bot.f(...)` with the arguments named `arguments`, for f
\* with the parameters `parameters`: a MeetingBot raises TypeError for an
\* argument that is no parameter, before the body of f runs; a stand-in
\* does as it is told.  (The handlers pass no argument list a MeetingBot
\* accepts, so the body of f is not entered from them.)
BotCall(bot, parameters, arguments) ==
    IF bot = "MeetingBot"
    THEN IF arguments \subseteq parameters THEN "entered" ELSE "TypeError"
    ELSE bot

\* the try/except of the handlers join_meeting and leave_meeting of
\* main.py, for what the awaited bot call did: a falsy result raises
\* HTTPException(400, failed) inside the try, and the clause
\* `except Exception` catches it with every other exception and raises
\* HTTPException(500, str(e)); a truthy result is answered with `done`.
Respond(call, failed, done) ==
    IF call = "True"
    THEN [status |-> "200", body |-> <<"success">> \o done]
    ELSE IF call = "False"
    THEN [status |-> "500", body |-> <<"HTTPException", "400", failed>>]
    ELSE [status |-> "500", body |-> <<call>>]

\* main.py: POST /meetings/join.  join_meeting is called with the keywords
\* meeting_id, platform, title and description.
main_join_meeting(request, bot) ==
    /\ app.started
    /\ LET arguments == {"meeting_id", "platform", "title", "description"}
           call == BotCall(bot, JoinParameters, arguments)
           response == Respond(call, "Failed to join meeting",
                               <<"Joined meeting", request.meeting_id>>)
       IN  /\ call # "entered"
           /\ last' = [Quiet("main_join_meeting", "None") EXCEPT
                          !.bot_call = call, !.arguments = arguments,
                          !.status = response.status, !.body = response.body]
    /\ UNCHANGED <<bot_vars, adapter_vars, tasks, chunks_fed, merged, handed, app>>

\* main.py: POST /meetings/leave.  leave_meeting is called with meeting_id.
main_leave_meeting(meeting_id, bot) ==
    /\ app.started
    /\ LET arguments == {"meeting_id"}
           call == BotCall(bot, LeaveParameters, arguments)
           response == Respond(call, "Failed to leave meeting",
                               <<"Left meeting", meeting_id>>)
       IN  /\ call # "entered"
           /\ last' = [Quiet("main_leave_meeting", "None") EXCEPT
                          !.bot_call = call, !.arguments = arguments,
                          !.status = response.status, !.body = response.body]
    /\ UNCHANGED <<bot_vars, adapter_vars, tasks, chunks_fed, merged, handed, app>>

\* action items as OpenAIService.generate_summary produces them, with a
\* description only, and as the ActionItem of main.py, with an assignee and
\* a due date
DescribedOnly(line) == [description |-> line]
Assigned(line) == [description |-> line, assignee |-> "a", due_date |-> "d"]

\* the lists of action items create_action_items is given
ItemLists ==
    { <<Assigned("x")>>,
      <<DescribedOnly("x")>>,
      <<Assigned("x"), Assigned("y"), Assigned("x")>>,
      <<Assigned("x"), DescribedOnly("y"), Assigned("z")>> }

\* the loop of JiraService.create_action_items over items[i..]: the keys of
\* the tickets created, the key of the ticket of items[i] written i.  The
\* description built for items[i] reads item['description'],
\* item['assignee'] and item['due_date']; a key the item lacks raises
\* KeyError, which the except clause logs like an exception of
\* create_ticket (the items whose index is in `failed`) before it goes on
\* with the next item.
RECURSIVE JiraService_create_action_items(_, _, _)
JiraService_create_action_items(items, i, failed) ==
    IF i > Len(items) THEN <<>>
    ELSE LET item == items[i]
             raised == \/ ~({"description", "assignee", "due_date"} \subseteq DOMAIN item)
                       \/ i \in failed
         IN  (IF raised THEN <<>> ELSE <<i>>)
             \o JiraService_create_action_items(items, i + 1, failed)

\* JiraService.create_action_items(meeting_id, action_items)
create_action_items(meeting_id, items, failed) ==
    /\ last' = [Quiet("create_action_items", "None") EXCEPT
                    !.items = items, !.failed = failed,
                    !.tickets = JiraService_create_action_items(items, 1, failed)]
    /\ UNCHANGED <<bot_vars, adapter_vars, tasks, chunks_fed, merged, handed, app>>

\* main.py from its import on, with the requests of its join and leave
\* endpoints, and the JIRA service creating tickets for action items
NextApp ==
    \/ \E file \in ConfigFiles, env \in SUBSET RequiredEnvVars :
           main_load_config(file, env)
    \/ \E request \in MeetingRequests, bot \in ApiBots :
           main_join_meeting(request, bot)
    \/ \E meeting_id \in MeetingIds, bot \in ApiBots :
           main_leave_meeting(meeting_id, bot)
    \/ \E items \in ItemLists : \E failed \in SUBSET (1..Len(items)) :
           create_action_items("m1", items, failed)

SpecApp == Init /\ [][NextApp]_vars

\* ------------------------------------------------------------------ properties

\* the values of current_meeting with which no meeting is recorded
NoMeeting == {"None", "False"}

\* C1: a join_meeting made while a meeting is recorded reports failure, calls
\* no adapter's join and leaves the recorded meeting and the adapters as they
\* were; so the two adapters never hold a meeting at the same time.
C1_SecondJoinRejected ==
    [][/\ (last'.op = "join_meeting" /\ current_meeting = "True")
            => /\ last'.result = "False"
               /\ last'.adapter_join = "none"
               /\ UNCHANGED <<current_meeting, adapter_vars>>
       /\ (teams_current_meeting' = "None" \/ google_current_meeting' = "None")]_vars

C3_IdleLeaveFails ==
    [][/\ (last'.op = "leave_meeting" /\ current_meeting \in NoMeeting)
            => /\ last'.result = "False"
               /\ last'.adapter_leave = "none"
               /\ UNCHANGED <<bot_vars, adapter_vars>>
       /\ (last'.op = "leave_meeting" /\ last'.result = "False")
            => current_meeting \in NoMeeting]_vars

\* leave_meeting ran after a join whose adapter returned False
C3_Witness ==
    /\ last.op = "leave_meeting"
    /\ last.was_meeting = "False"
    /\ last.result = "False"

\* C4: a join_meeting from Idle whose adapter reports failure returns False
\* and records no meeting.
C4_FailedJoinReported ==
    [][(last'.op = "join_meeting" /\ current_meeting = "None"
          /\ last'.adapter_result = "False")
         => /\ last'.result = "False"
            /\ current_meeting' = "None"]_vars

\* the ways a flush fails
FlushFailures == {"transcribe_raises", "summary_raises"}

\* C5: a flush empties the buffer only after transcribe_audio and
\* generate_summary have both returned; when either raises, the buffer holds
\* after the attempt the chunks it held when the attempt began, in order.
C5_BufferKeptOnFailure ==
    [][last'.op = "process_audio"
         => LET fed == Append(transcription_buffer, <<chunks_fed'>>)
            IN  /\ last'.flush \in FlushFailures => transcription_buffer' = fed
                /\ transcription_buffer' = <<>>
                     => /\ last'.flush = "ok"
                        /\ last'.transcribe_calls = 1
                        /\ last'.summary_calls = 1]_vars

\* a flush of two chunks failed in generate_summary and both are kept
C5_Witness ==
    /\ last.op = "process_audio"
    /\ last.flush = "summary_raises"
    /\ last.payload = <<1, 2>>
    /\ transcription_buffer = <<<<1>>, <<2>>>>

\* C6: with threshold buffer_size, a process_audio call that leaves the
\* buffer shorter than buffer_size triggers no flush; the call that brings
\* it to buffer_size triggers one flush, of those buffer_size chunks, and
\* when that flush succeeds the buffer is empty afterwards and action_items
\* is longer by the number of action items of the fragment.
C6_FlushAtThreshold ==
    [][last'.op = "process_audio"
         => LET n == Len(transcription_buffer) + 1
            IN  /\ n < buffer_size
                     => last'.flush = "none" /\ last'.transcribe_calls = 0
                /\ n = buffer_size
                     => last'.flush # "none" /\ last'.transcribe_calls = 1
                /\ (n = buffer_size /\ last'.flush = "ok")
                     => /\ last'.summary_calls = 1
                        /\ Len(last'.payload) = buffer_size
                        /\ transcription_buffer' = <<>>
                        /\ Len(action_items') =
                             Len(action_items) + Len(last'.fragment.action_items)]_vars

\* the second of two chunks triggered a flush that merged two action items
C6_Witness ==
    /\ last.op = "process_audio"
    /\ last.flush = "ok"
    /\ buffer_size = 2
    /\ last.payload = <<1, 2>>
    /\ transcription_buffer = <<>>
    /\ Len(last.fragment.action_items) = 2
    /\ Len(action_items) = 2

\* the concatenation, in order, of a list of the fragments merged
RECURSIVE ConcatOf(_, _)
ConcatOf(ms, list) ==
    IF ms = <<>> THEN <<>>
    ELSE ms[1].fragment[list] \o ConcatOf(Tail(ms), list)

\* C7: after any successful flushes, summary is the summary of the fragment
\* merged last, and action_items, key_points and next_steps are each the
\* concatenation, in flush order, of that list of all fragments merged,
\* duplicates kept; with nothing merged summary is None and the lists empty.
C7_NotesAreConcatenation ==
    /\ summary = IF merged = <<>> THEN <<>>
                 ELSE <<merged[Len(merged)].fragment.summary>>
    /\ action_items = ConcatOf(merged, "action_items")
    /\ key_points = ConcatOf(merged, "key_points")
    /\ next_steps = ConcatOf(merged, "next_steps")

\* two fragments with different summaries were merged and an action item of
\* the first came again with the second
C7_Witness ==
    /\ Len(merged) = 2
    /\ merged[1].fragment.summary # merged[2].fragment.summary
    /\ Len(action_items) = 3
    /\ \E i \in 1..2 : action_items[i] = action_items[3]

InPayload(c, payload) == \E i \in 1..Len(payload) : payload[i] = c

\* C9: with process_audio calls interleaving at the awaits of the flush,
\* every chunk appended is in the buffer, or in the payload of a flush still
\* in flight, or was in the payload of exactly one flush that merged; no
\* chunk is in the payload of two flushes that merged.
C9_NoLossNoDuplication ==
    \A c \in 1..chunks_fed :
        LET in_buffer ==
                \E i \in 1..Len(transcription_buffer) : transcription_buffer[i] = <<c>>
            in_flight ==
                \E t \in 1..Len(tasks) :
                    tasks[t].pc \in InFlight /\ InPayload(c, tasks[t].payload)
            times_merged ==
                Cardinality({k \in 1..Len(merged) : InPayload(c, merged[k].payload)})
        IN  /\ times_merged <= 1
            /\ in_buffer \/ in_flight \/ times_merged = 1

\* C10: at no time are two flushes in flight together, and fragments are
\* merged in the order their flushes were triggered.
C10_FlushesSerialized ==
    /\ Cardinality({t \in 1..Len(tasks) : tasks[t].pc \in InFlight}) <= 1
    /\ \A i, j \in 1..Len(merged) : i < j => merged[i].call < merged[j].call

\* C11: a leave_meeting made while a flush is in flight cancels no task, and
\* while that flush is in flight it neither clears the recorded meeting nor
\* the buffer.
C11_LeaveWaitsForFlush ==
    [][(last'.op = "leave_meeting"
          /\ \E t \in 1..Len(tasks) : tasks[t].pc \in InFlight)
         => /\ tasks' = tasks
            /\ current_meeting' = current_meeting
            /\ transcription_buffer' = transcription_buffer]_vars

\* C12: a leave_meeting of the session a successful join_meeting just
\* recorded returns True, calls the leave_meeting of the adapter that
\* joined, and that adapter holds no meeting afterwards.
C12_LeaveDelegatesToAdapter ==
    [][(last.op = "join_meeting" /\ last.adapter_result = "True"
          /\ last'.op = "leave_meeting")
         => /\ last'.result = "True"
            /\ last'.adapter_leave = last.adapter_join
            /\ last.adapter_join = "teams" => teams_current_meeting' = "None"
            /\ last.adapter_join = "google" => google_current_meeting' = "None"]_vars

\* C13: leave_meeting with a meeting recorded returns True and
\* current_meeting is None afterwards.
C13_LeaveClearsMeeting ==
    [][(last'.op = "leave_meeting" /\ current_meeting = "True")
         => /\ last'.result = "True"
            /\ current_meeting' = "None"]_vars

\* a recorded meeting was left
C13_Witness ==
    /\ last.op = "leave_meeting"
    /\ last.was_meeting = "True"
    /\ last.result = "True"
    /\ current_meeting = "None"

\* C14: a join_meeting whose adapter returns True (the adapter of an
\* enabled platform: no other is called) returns True and records a
\* meeting: current_meeting is not None, and truthy.
C14_JoinSucceeds ==
    [][(last'.op = "join_meeting" /\ last'.adapter_result = "True")
         => /\ last'.adapter_join \in enabled
            /\ last'.result = "True"
            /\ current_meeting' # "None"
            /\ current_meeting' = "True"]_vars

\* a join through the Google Meet adapter succeeded on a bot with both
\* platforms enabled and no meeting recorded
C14_Witness ==
    /\ last.op = "join_meeting"
    /\ last.was_meeting = "None"
    /\ last.adapter_join = "google"
    /\ last.adapter_result = "True"
    /\ enabled = {"teams", "google"}
    /\ google_current_meeting # "None"
    /\ current_meeting = "True"

\* the output operations
OutputOps == {"generate_documents", "update_jira"}

C16_HandedNotesAreCopies ==
    [][(handed.op # "none" /\ last'.op = "process_audio")
         => HandedNotes' = HandedNotes]_vars

\* C17: a join_meeting that succeeds right after a leave_meeting that
\* returned True starts with an empty buffer, no summary and empty
\* action_items, key_points and next_steps.
C17_NewSessionStartsEmpty ==
    [][(last.op = "leave_meeting" /\ last.result = "True"
          /\ last'.op = "join_meeting" /\ last'.adapter_result = "True")
         => /\ transcription_buffer' = <<>>
            /\ summary' = <<>>
            /\ action_items' = <<>>
            /\ key_points' = <<>>
            /\ next_steps' = <<>>]_vars

\* C18: get_meeting_status raises nothing and returns a dict: with no
\* meeting recorded its meeting_id and platform are None, with a meeting
\* recorded they are the meeting the adapter joined and its platform.
C18_StatusNeverRaises ==
    [][last'.op = "get_meeting_status"
         => /\ last'.result = "dict"
            /\ handed'.op = "get_meeting_status"
            /\ current_meeting \in NoMeeting
                 => handed'.meeting_id = "None" /\ handed'.platform = "None"
            /\ current_meeting = "True"
                 => \/ /\ handed'.platform = "teams"
                       /\ handed'.meeting_id = teams_current_meeting
                       /\ teams_current_meeting # "None"
                    \/ /\ handed'.platform = "google"
                       /\ handed'.meeting_id = google_current_meeting
                       /\ google_current_meeting # "None"]_vars

\* C19: a flush of a non-empty buffer whose transcription and summary both
\* succeed returns the summary generated to its caller and leaves the
\* buffer empty.
C19_FlushReturnsSummary ==
    [][(last'.op = "process_audio" /\ last'.flush = "ok")
         => /\ last'.payload # <<>>
            /\ last'.flush_result = <<last'.fragment.summary>>
            /\ transcription_buffer' = <<>>]_vars

\* the exceptions generate_documents raises
Raised == {"TypeError", "NameError", "ValueError"}

\* C20: generate_documents returns a result and raises nothing when its
\* format is "word" or "powerpoint" in any case of letters (the path of the
\* document), and when it is called as test_generate_documents calls it (a
\* result holding a "word" and a "powerpoint" document).
C20_DocumentsReturned ==
    [][(last'.op = "generate_documents"
          /\ (Lower(last'.format) \in {"word", "powerpoint"}
                \/ last'.format = "Test content"))
         => last'.result \notin Raised]_vars

C22_JoinEndpoint ==
    [][last'.op = "main_join_meeting"
         => /\ last'.arguments = {"meeting_id", "platform"}
            /\ last'.bot_call = "True"
                 => /\ last'.status = "200"
                    /\ last'.body = <<"success", "Successfully joined meeting">>]_vars

\* C23: load_config raises, and main.py does not start, when the
\* configuration file is missing, lacks a required section, or a required
\* environment variable is not set.
C23_ConfigFailsFast ==
    [][last'.op = "load_config"
         => LET incomplete == \/ ~app'.file.exists
                              \/ ~(RequiredSections \subseteq app'.file.sections)
                              \/ ~(RequiredEnvVars \subseteq app'.env)
            IN  incomplete => last'.result # "none" /\ ~app'.started]_vars

\* C24: every flush attempt leaves the buffer empty, the attempts whose
\* transcribe_audio or generate_summary call raised included.
C24_BufferDiscardedAlways ==
    [][(last'.op = "process_audio" /\ last'.flush # "none")
         => transcription_buffer' = <<>>]_vars

\* C24, amended: a flush attempt leaves the buffer empty exactly when both
\* calls returned; an attempt whose transcribe_audio or generate_summary
\* call raised leaves in the buffer every chunk it held, the one just
\* appended included.
C24_BufferDiscardedOnSuccessOnly ==
    [][(last'.op = "process_audio" /\ last'.flush # "none")
         => /\ transcription_buffer' = <<>> <=> last'.flush = "ok"
            /\ last'.flush # "ok"
                 => transcription_buffer' =
                      Append(transcription_buffer, <<chunks_fed'>>)]_vars

\* a flush of one chunk failed in transcribe_audio and the chunk is kept
C24_Witness ==
    /\ last.op = "process_audio"
    /\ last.flush = "transcribe_raises"
    /\ last.summary_calls = 0
    /\ last.payload = <<1>>
    /\ transcription_buffer = <<<<1>>>>

\* C25: a flush attempt either merges the whole fragment (summary replaced,
\* each list extended by all of its items) and empties the buffer, or
\* changes none of the four and keeps the buffer; so no chunk of a payload
\* that was merged is ever in the buffer.
C25_FlushAllOrNothing ==
    [][/\ (last'.op = "process_audio" /\ last'.flush # "none")
            => LET f == last'.fragment
               IN  \/ /\ last'.flush = "ok"
                      /\ summary' = <<f.summary>>
                      /\ action_items' = action_items \o f.action_items
                      /\ key_points' = key_points \o f.key_points
                      /\ next_steps' = next_steps \o f.next_steps
                      /\ transcription_buffer' = <<>>
                   \/ /\ last'.flush # "ok"
                      /\ UNCHANGED notes_vars
                      /\ transcription_buffer' =
                           Append(transcription_buffer, <<chunks_fed'>>)
       /\ \A k \in 1..Len(merged') : \A i \in 1..Len(transcription_buffer') :
              ~InPayload(transcription_buffer'[i][1], merged'[k].payload)]_vars

\* a fragment of two chunks was merged whole, and the chunk fed next is in
\* the buffer
C25_Witness ==
    /\ Len(merged) = 1
    /\ merged[1].payload = <<1, 2>>
    /\ Len(merged[1].fragment.action_items) = 2
    /\ action_items = merged[1].fragment.action_items
    /\ Len(key_points) > 0
    /\ last.op = "process_audio"
    /\ last.flush = "none"
    /\ transcription_buffer = <<<<3>>>>

\* C26: a process_audio call that finds the buffer at or above buffer_size
\* (a flush failed before) appends its chunk and attempts one flush of the
\* whole buffer, the chunks of the failed attempts and the new one; when the
\* attempt fails the buffer is longer by exactly that chunk, when it
\* succeeds the buffer is empty.
C26_FlushAttemptedAgain ==
    [][(last'.op = "process_audio" /\ Len(transcription_buffer) >= buffer_size)
         => LET fed == Append(transcription_buffer, <<chunks_fed'>>)
            IN  /\ last'.flush # "none"
                /\ last'.transcribe_calls = 1
                /\ last'.payload = Join(<<>>, fed)
                /\ last'.flush # "ok"
                     => /\ transcription_buffer' = fed
                        /\ Len(transcription_buffer') = Len(transcription_buffer) + 1
                /\ last'.flush = "ok" => transcription_buffer' = <<>>]_vars

\* after two failed flushes the third call flushed all three chunks
C26_Witness ==
    /\ buffer_size = 1
    /\ last.op = "process_audio"
    /\ last.flush = "ok"
    /\ last.payload = <<1, 2, 3>>
    /\ merged = <<[call |-> 3, payload |-> <<1, 2, 3>>, fragment |-> last.fragment]>>
    /\ transcription_buffer = <<>>

\* the indices i..n that are not in `failed`, in order
RECURSIVE Unfailed(_, _, _)
Unfailed(n, i, failed) ==
    IF i > n THEN <<>>
    ELSE (IF i \in failed THEN <<>> ELSE <<i>>) \o Unfailed(n, i + 1, failed)

\* C27: create_action_items returns, in input order, the key of a ticket
\* for every action item but those whose create_ticket call failed, an
\* item that carries a description only included.
C27_TicketPerActionItem ==
    [][last'.op = "create_action_items"
         => last'.tickets = Unfailed(Len(last'.items), 1, last'.failed)]_vars

\* C28: a GoogleMeetService.join_meeting that returns False leaves no page
\* open.
C28_NoBrowserLeftOpen ==
    [][(last'.op = "join_meeting" /\ last'.adapter_join = "google"
          /\ last'.adapter_result = "False")
         => google_page' = "None"]_vars

\* C29: a TeamsService.join_meeting that returns False, made while the
\* service holds no meeting, leaves TeamsService.current_meeting None.
C29_TeamsRecordsOnSuccessOnly ==
    [][(last'.op = "join_meeting" /\ last'.adapter_join = "teams"
          /\ last'.adapter_result = "False" /\ teams_current_meeting = "None")
         => teams_current_meeting' = "None"]_vars

\* C30: the handlers of POST /meetings/join and POST /meetings/leave
\* answer 400 with the detail "Failed to join meeting" (respectively
\* "Failed to leave meeting") when the bot call returned False, and 500
\* only when the bot call raised.
C30_StatusMapsToOutcome ==
    [][last'.op \in {"main_join_meeting", "main_leave_meeting"}
         => /\ last'.bot_call = "False"
                 => /\ last'.status = "400"
                    /\ last'.body = <<IF last'.op = "main_join_meeting"
                                      THEN "Failed to join meeting"
                                      ELSE "Failed to leave meeting">>
            /\ last'.status = "500"
                 => last'.bot_call \in {"raises", "TypeError"}]_vars

====
